---- MODULE Spec2Model ----
(***************************************************************************)
(* Ephemeral preview sessions of code-for-me: the PreviewManager registry, *)
(* its reaper thread, create_preview provisioning and the serve_preview    *)
(* path resolution, modelled from src/server/preview_manager.py,           *)
(* src/server/preview_server.py and src/server/main.py.                    *)
(***************************************************************************)
EXTENDS Integers, Sequences, FiniteSets, TLC

\* ---------------------------------------------------------------- bounds
MaxTokens == 2          \* uuid4 tokens generated in one run
MaxTime == 600          \* the clock stops advancing here (seconds)
TickSeconds == 600      \* granularity of the clock (seconds)
ScanWindow == 2         \* ports probed by find_available_port (100 in the code)
MaxPathLen == 4         \* segments of a requested file_path
MaxLead == 2            \* leading slashes of a requested file_path
MaxRefLen == 3          \* pieces of the value of an href or src

\* ------------------------------------------------------ program constants
PREVIEW_DURATION_MINUTES == 10
StartPort == 3000

TTL == PREVIEW_DURATION_MINUTES * 60

Clients == {"c1", "c2"}
Reaper == "reaper"
Threads == Clients \cup {Reaper}
Tokens == 1..MaxTokens
Ports == StartPort..(StartPort + ScanWindow - 1)
NoLock == "free"
NoPreview == [token |-> 0, port |-> 0, expires_at |-> 0, created_at |-> 0]

VARIABLES
    now,            \* time.time()
    previews,       \* PreviewManager.previews, in dict insertion order
    lock,           \* PreviewManager.lock: NoLock or the thread holding it
    dirExists,      \* PREVIEW_BASE_DIR / token exists
    proc,           \* state of the http.server process spawned for a token
    procPort,       \* the port that process was told to bind
    procCwd,        \* the directory that process was started in
    extBusy,        \* ports some other program of the host listens on
    nextToken,      \* the next uuid4
    pc,             \* position of each thread
    op,             \* the top-level call a thread is running
    via,            \* the caller of _remove_preview
    tok,            \* token argument / generated token of the running call
    port,           \* create_preview: port, find_available_port: loop variable
    expires_at,     \* register_preview: expires_at, then create_preview: expires_at
    current_time,   \* cleanup_expired: current_time
    expired_tokens, \* cleanup_expired: expired_tokens still to be removed
    preview,        \* the dict entry a call got from previews.get(token)
    ret,            \* return value of the finished call
    fsFiles,        \* regular files of the host, as absolute paths
    fsDirs,         \* directories of the host, as absolute paths
    request,        \* the GET /preview/{token}/{file_path:path} a browser sends
    response,       \* what serve_preview answered to it
    served_from,    \* serve_preview: static_dir of the last request
    media_type,     \* media_type of the last response
    content,        \* the reference held by the HTML body of the last response
    written,        \* the files serve_preview wrote: [path, text] records
    zip_data,       \* the archive handed to create_preview
    faulty,         \* the host lets kill() and rmtree fail
    printed,        \* what the print statements wrote: <<token, message>> pairs
    called,         \* the steps _remove_preview has made: <<token, call>> pairs
    ran             \* the commands subprocess.run was given for a session, in order

mgrVars == <<now, previews, lock, dirExists, proc, procPort, procCwd, extBusy,
            nextToken>>
thrVars == <<pc, op, via, tok, port, expires_at, current_time, expired_tokens,
             preview, ret>>
fsVars == <<fsFiles, fsDirs, written>>
reqVars == <<request, response, served_from, media_type, content>>
envVars == <<zip_data, faulty>>
srvVars == <<fsVars, reqVars, envVars, printed, called, ran>>
vars == <<mgrVars, thrVars, srvVars>>

\* --------------------------------------------------------- dict helpers
RECURSIVE dict_get(_, _)
dict_get(d, token) ==
    IF d = <<>> THEN NoPreview
    ELSE IF Head(d).token = token THEN Head(d) ELSE dict_get(Tail(d), token)

\* a pop that forgets to erase the entry
dict_pop_kept(d, token) == d

\* a pop that gives the entries it leaves another PREVIEW_DURATION_MINUTES
RECURSIVE dict_pop_renews(_, _)
dict_pop_renews(d, token) ==
    IF d = <<>> THEN <<>>
    ELSE IF Head(d).token = token THEN dict_pop_renews(Tail(d), token)
    ELSE <<[Head(d) EXCEPT !.expires_at = @ + PREVIEW_DURATION_MINUTES * 60]>>
         \o dict_pop_renews(Tail(d), token)

RECURSIVE dict_pop(_, _)
dict_pop(d, token) ==
    IF d = <<>> THEN <<>>
    ELSE IF Head(d).token = token THEN Tail(d)
    ELSE <<Head(d)>> \o dict_pop(Tail(d), token)

RECURSIVE dict_set(_, _)
dict_set(d, entry) ==
    IF d = <<>> THEN <<entry>>
    ELSE IF Head(d).token = entry.token THEN <<entry>> \o Tail(d)
    ELSE <<Head(d)>> \o dict_set(Tail(d), entry)

Registered == {previews[i].token : i \in DOMAIN previews}

\* ports on which a connect_ex succeeds
Listening == extBusy \cup {procPort[t] : t \in {u \in Tokens : proc[u] = "listening"}}


\* ---------------------------------------------------------------- paths
\* PREVIEW_BASE_DIR = Path("/tmp/previews")
PREVIEW_BASE_DIR == <<"tmp", "previews">>

\* str(uuid) of a token, the name of its directory
token_name(token) == IF token = 1 THEN "T1" ELSE IF token = 2 THEN "T2" ELSE "T3"

\* preview["path"] = PREVIEW_BASE_DIR / token
preview_path(token) == PREVIEW_BASE_DIR \o <<token_name(token)>>

NoPath == <<>>

parent(path) == IF path = <<>> THEN <<>> ELSE SubSeq(path, 1, Len(path) - 1)

\* a.relative_to(b) does not raise ValueError: b is a prefix of a
is_relative_to(a, b) == Len(b) <= Len(a) /\ SubSeq(a, 1, Len(b)) = b

\* the directories above path, the root directory <<>> included
prefixes(path) == {SubSeq(path, 1, k) : k \in 0..(Len(path) - 1)}

\* the paths of a set that lie at or below dir
below(paths, dir) == {q \in paths : is_relative_to(q, dir)}

\* Path.resolve() where no symbolic link exists: "." and ".." are folded
RECURSIVE resolve_from(_, _)
resolve_from(acc, segs) ==
    IF segs = <<>> THEN acc
    ELSE IF Head(segs) = ".." THEN resolve_from(parent(acc), Tail(segs))
    ELSE IF Head(segs) = "." THEN resolve_from(acc, Tail(segs))
    ELSE resolve_from(acc \o <<Head(segs)>>, Tail(segs))

resolve(path) == resolve_from(<<>>, path)

\* the kernel's path walk: every component met on the way has to exist,
\* and every one but the last has to be a directory
RECURSIVE walk(_, _)
walk(cur, segs) ==
    IF segs = <<>> THEN [ok |-> TRUE, path |-> cur]
    ELSE IF cur \notin fsDirs THEN [ok |-> FALSE, path |-> cur]
    ELSE IF Head(segs) = ".." THEN walk(parent(cur), Tail(segs))
    ELSE IF Head(segs) = "." THEN walk(cur, Tail(segs))
    ELSE IF cur \o <<Head(segs)>> \in fsDirs \/ cur \o <<Head(segs)>> \in fsFiles
         THEN walk(cur \o <<Head(segs)>>, Tail(segs))
    ELSE [ok |-> FALSE, path |-> cur]

exists(path) == walk(<<>>, path).ok
is_file(path) == walk(<<>>, path).ok /\ walk(<<>>, path).path \in fsFiles
is_dir(path) == walk(<<>>, path).ok /\ walk(<<>>, path).path \in fsDirs

\* the first of build_dirs that exists as a directory of preview_dir
RECURSIVE first_existing_dir(_, _)
first_existing_dir(preview_dir, build_dirs) ==
    IF build_dirs = <<>> THEN NoPath
    ELSE IF exists(preview_dir \o <<Head(build_dirs)>>)
            /\ is_dir(preview_dir \o <<Head(build_dirs)>>)
         THEN preview_dir \o <<Head(build_dirs)>>
    ELSE first_existing_dir(preview_dir, Tail(build_dirs))

\* find_static_files(preview_dir): the first build directory there is, else
\* the directory itself
find_static_files(preview_dir) ==
    IF first_existing_dir(preview_dir, <<"dist", "build", "out", "public">>) # NoPath
      THEN first_existing_dir(preview_dir, <<"dist", "build", "out", "public">>)
      ELSE preview_dir

\* a page holds one reference: the tag it stands in and its value, a
\* string cut into pieces; NoRef is a body without any reference
NoRef == [tag |-> "none", value |-> <<>>]

\* ------------------------------------------------------- return values
None == [kind |-> "None", ok |-> FALSE, entry |-> NoPreview]
Bool(b) == [kind |-> "bool", ok |-> b, entry |-> NoPreview]
Found(e) == [kind |-> "preview", ok |-> TRUE, entry |-> e]
\* an exception that leaves the call
Raised == [kind |-> "raise", ok |-> FALSE, entry |-> NoPreview]
PreviewInfo(token, e, p) ==
    [kind |-> "PreviewInfo", ok |-> TRUE,
     entry |-> [token |-> token, port |-> p, expires_at |-> e, created_at |-> 0]]

NoRequest == [token |-> 0, lead |-> 0, segs |-> <<>>]
NoResponse == [status |-> 0, detail |-> "none", file |-> <<>>, rewritten |-> FALSE]

TypeOK ==
    /\ now \in 0..MaxTime
    /\ lock \in Threads \cup {NoLock}
    /\ dirExists \in [Tokens -> BOOLEAN]
    /\ proc \in [Tokens -> {"none", "starting", "listening", "failed", "stopped"}]
    /\ \A token \in Tokens : ran[token] \in Seq({"npm install", "npm run build"})
    /\ extBusy \subseteq Ports
    /\ nextToken \in 1..(MaxTokens + 1)
    /\ Registered \subseteq Tokens
    /\ tok \in [Threads -> Tokens \cup {0}]

\* the state once PreviewManager() is constructed; pc0 is where each thread
\* is, zips the archives that may be uploaded, hosts the kinds of host,
\* requests the requests a browser may send
InitWith(pc0, zips, hosts, requests) ==
    /\ now = 0
    /\ previews = <<>>
    /\ lock = NoLock
    /\ dirExists = [t \in Tokens |-> FALSE]
    /\ proc = [t \in Tokens |-> "none"]
    /\ procPort = [t \in Tokens |-> 0]
    /\ procCwd = [t \in Tokens |-> NoPath]
    /\ extBusy \in {StartPort..(StartPort + k - 1) : k \in 0..ScanWindow}
    /\ nextToken = 1
    /\ pc = pc0
    /\ op = [t \in Threads |-> "none"]
    /\ via = [t \in Threads |-> "none"]
    /\ tok = [t \in Threads |-> 0]
    /\ port = [t \in Threads |-> 0]
    /\ expires_at = [t \in Threads |-> 0]
    /\ current_time = [t \in Threads |-> 0]
    /\ expired_tokens = [t \in Threads |-> <<>>]
    /\ preview = [t \in Threads |-> NoPreview]
    /\ ret = [t \in Threads |-> None]
    /\ fsFiles = {}
    /\ fsDirs = prefixes(PREVIEW_BASE_DIR) \cup {PREVIEW_BASE_DIR}
    /\ written = {}
    /\ request \in requests
    /\ response = NoResponse
    /\ served_from = NoPath
    /\ media_type = "none"
    /\ content = NoRef
    /\ zip_data \in zips
    /\ faulty \in hosts
    /\ printed = {}
    /\ called = {}
    /\ ran = [t \in Tokens |-> <<>>]

\* the archive of the end-to-end example: index.html, which links a.css,
\* and a.css
SitePage == [tag |-> "link", value |-> <<"a.css">>]
SiteZip == [files |-> {<<"index.html">>, <<"a.css">>}, build_script |-> FALSE,
            react |-> FALSE, html |-> SitePage]

Init == InitWith([t \in Threads |-> "idle"], {SiteZip}, {FALSE}, {NoRequest})

\* --------------------------------------------- extract, install, build
\* A member of the archive is its name split at "/": "/etc/passwd" is
\* <<"", "etc", "passwd">>, the empty name is <<"">>.
\* an extraction that joins the name to the target directory as it is
arcname_as_written(member) == member

\* ZipFile.extractall drops the empty, "." and ".." components of a name
\* and joins what is left to the target directory
arcname(member) == SelectSeq(member, LAMBDA x : x \notin {"", ".", ".."})

\* a member of which nothing is left names the target directory itself:
\* writing it raises
extract_raises(zip) == \E m \in zip.files : arcname(m) = <<>>

\* an extraction that writes nothing
extracted_nothing(zip) == {}

\* the files extractall writes, relative to the target directory
extracted(zip) == {arcname(m) : m \in zip.files} \ {<<>>}

\* install_dependencies: True without package.json, else what npm install
\* makes of it (a non-zero exit, a timeout and an exception give False)
install_dependencies(files) ==
    IF <<"package.json">> \notin files THEN {TRUE} ELSE BOOLEAN

\* what "npm run build" may leave in the directory
BuildOutputs == {{}, {<<"dist", "app.js">>},
                 {<<"dist", "app.js">>, <<"dist", "index.html">>}}

\* build_project, after a build that succeeded: index.html of the root is
\* copied into dist when dist exists without one
copy_index(files) ==
    IF /\ \E f \in files : Len(f) > 1 /\ Head(f) = "dist"
       /\ <<"dist", "index.html">> \notin files
       /\ <<"index.html">> \in files
      THEN files \cup {<<"dist", "index.html">>}
      ELSE files

\* build_project: True without package.json or without a build script, else
\* the result of the build and the files of the directory after it
build_project(files, build_script) ==
    IF <<"package.json">> \notin files \/ ~build_script
      THEN {[ok |-> TRUE, files |-> files]}
      ELSE {[ok |-> FALSE, files |-> files]}
           \cup {[ok |-> TRUE, files |-> copy_index(files \cup out)] :
                     out \in BuildOutputs}

\* the command install_dependencies hands to subprocess.run: "npm install",
\* once, when package.json exists
install_command(files) ==
    IF <<"package.json">> \notin files THEN <<>> ELSE <<"npm install">>

\* the command build_project hands to subprocess.run: build_command, once,
\* when package.json exists and declares a "build" script
build_command(files, build_script) ==
    IF <<"package.json">> \notin files \/ ~build_script
      THEN <<>> ELSE <<"npm run build">>

\* the ways the first three steps of create_preview can go for an archive
provision(zip) ==
    IF extract_raises(zip)
      THEN {[extracted |-> FALSE, installed |-> FALSE, built |-> FALSE,
             files |-> part, ran |-> <<>>] : part \in SUBSET extracted(zip)}
      ELSE {[extracted |-> TRUE, installed |-> i, built |-> b.ok,
             files |-> b.files,
             ran |-> install_command(extracted(zip))
                       \o build_command(extracted(zip), zip.build_script)] :
                i \in install_dependencies(extracted(zip)),
                b \in build_project(extracted(zip), zip.build_script)}

\* the warnings create_preview prints for a run of the three steps
warnings(run) ==
    (IF run.extracted /\ ~run.installed
       THEN {"Warning: Failed to install dependencies, continuing anyway"}
       ELSE {})
    \cup (IF run.extracted /\ ~run.built
            THEN {"Warning: Build failed, serving source files"} ELSE {})

\* a provisioning that gives up when the install or the build fails
after_provision_strict(extracted_ok, installed, built) ==
    IF extracted_ok /\ installed /\ built THEN "cp_find" ELSE "cp_except"

\* where create_preview goes on: only an exception of extract_zip_to_directory
\* leads to the except branch, a False of the other two is printed
after_provision(extracted_ok, installed, built) ==
    IF extracted_ok THEN "cp_find" ELSE "cp_except"

\* ------------------------------------------------------ create_preview
\* token = str(uuid.uuid4()); create_preview_directory(token);
\* extract_zip_to_directory, install_dependencies and build_project: all of
\* it works on the new directory, which no other thread knows yet.
\* find_available_port() then starts its scan at start_port.
create_preview(t) ==
    /\ t \in Clients /\ pc[t] = "idle"
    /\ nextToken <= MaxTokens
    /\ nextToken' = nextToken + 1
    /\ tok' = [tok EXCEPT ![t] = nextToken]
    /\ op' = [op EXCEPT ![t] = "create_preview"]
    /\ dirExists' = [dirExists EXCEPT ![nextToken] = TRUE]
    /\ \E run \in provision(zip_data) :
          LET preview_dir == preview_path(nextToken)
              made == {preview_dir \o f : f \in run.files}
          IN  /\ fsFiles' = fsFiles \cup made
              /\ fsDirs' = fsDirs \cup {preview_dir}
                              \cup UNION {below(prefixes(f), preview_dir) : f \in made}
              /\ printed' = printed \cup {<<nextToken, w>> : w \in warnings(run)}
              /\ ran' = [ran EXCEPT ![nextToken] = run.ran]
              /\ pc' = [pc EXCEPT ![t] =
                          after_provision(run.extracted, run.installed, run.built)]
    /\ port' = [port EXCEPT ![t] = StartPort]
    /\ UNCHANGED <<written, reqVars, envVars, called, now, previews, lock, proc,
                   procPort, procCwd, extBusy, via, expires_at, current_time, expired_tokens,
                   preview, ret>>

\* a probe that takes every port for free
port_is_free_always(p) == TRUE

\* a probe that takes every port for taken
port_is_free_never(p) == FALSE

\* s.connect_ex(('localhost', port)) != 0
port_is_free(p) == p \notin Listening

\* one iteration of the loop of find_available_port
find_available_port(t) ==
    /\ pc[t] = "cp_find"
    /\ IF port_is_free(port[t])
         THEN /\ pc' = [pc EXCEPT ![t] = "cp_start"]
              /\ port' = port
         ELSE IF port[t] + 1 < StartPort + ScanWindow
         THEN /\ pc' = pc
              /\ port' = [port EXCEPT ![t] = port[t] + 1]
         ELSE \* raise RuntimeError("No available port found")
              /\ pc' = [pc EXCEPT ![t] = "cp_except"]
              /\ port' = port
    /\ UNCHANGED <<srvVars, mgrVars, op, via, tok, expires_at, current_time,
                   expired_tokens, preview, ret>>

\* start_preview_server(preview_dir, port): Popen with cwd=static_dir, or
\* None when Popen raises
start_preview_server(t) ==
    /\ pc[t] = "cp_start"
    /\ \E started \in BOOLEAN :
          IF started
            THEN /\ proc' = [proc EXCEPT ![tok[t]] = "starting"]
                 /\ procPort' = [procPort EXCEPT ![tok[t]] = port[t]]
                 /\ procCwd' = [procCwd EXCEPT ![tok[t]] =
                                  find_static_files(preview_path(tok[t]))]
                 /\ pc' = [pc EXCEPT ![t] = "cp_register"]
            ELSE /\ UNCHANGED <<proc, procPort, procCwd>>
                 /\ pc' = [pc EXCEPT ![t] = "cp_except"]
    /\ UNCHANGED <<srvVars, now, previews, lock, dirExists, extBusy, nextToken, op, via, tok,
                   port, expires_at, current_time, expired_tokens, preview, ret>>

\* register_preview: expires_at = time.time() + PREVIEW_DURATION_MINUTES * 60
register_preview_time(t) ==
    /\ pc[t] = "cp_register"
    /\ expires_at' = [expires_at EXCEPT ![t] = now + TTL]
    /\ pc' = [pc EXCEPT ![t] = "rg_insert"]
    /\ UNCHANGED <<srvVars, mgrVars, op, via, tok, port, current_time, expired_tokens,
                   preview, ret>>

\* register_preview: with self.lock: self.previews[token] = {...}
register_preview(t) ==
    /\ pc[t] = "rg_insert"
    /\ lock = NoLock
    /\ previews' = dict_set(previews, [token |-> tok[t], port |-> port[t],
                                       expires_at |-> expires_at[t],
                                       created_at |-> now])
    /\ pc' = [pc EXCEPT ![t] = "cp_info"]
    /\ UNCHANGED <<srvVars, now, lock, dirExists, proc, procPort, procCwd, extBusy, nextToken, op, via,
                   tok, port, expires_at, current_time, expired_tokens, preview, ret>>

\* expires_at = time.time() + (10 * 60); return PreviewInfo(...)
create_preview_return(t) ==
    /\ pc[t] = "cp_info"
    /\ expires_at' = [expires_at EXCEPT ![t] = now + (10 * 60)]
    /\ ret' = [ret EXCEPT ![t] = PreviewInfo(tok[t], now + (10 * 60), port[t])]
    /\ pc' = [pc EXCEPT ![t] = "done"]
    /\ UNCHANGED <<srvVars, mgrVars, op, via, tok, port, current_time, expired_tokens,
                   preview>>

\* shutil.rmtree(path, ignore_errors=True): the tree is gone, or, on a host
\* where deletions fail, it is left as it was
delete_outcomes == {"deleted"} \cup (IF faulty THEN {"failed"} ELSE {})

\* an except branch that returns None without removing the directory
create_preview_except_keeps_dir(t) ==
    /\ pc[t] = "cp_except"
    /\ ret' = [ret EXCEPT ![t] = None]
    /\ pc' = [pc EXCEPT ![t] = "done"]
    /\ UNCHANGED <<srvVars, mgrVars, op, via, tok, port, expires_at, current_time,
                   expired_tokens, preview>>

\* except Exception: shutil.rmtree(preview_dir, ignore_errors=True);
\* print(f"Error creating preview: {e}"); return None
create_preview_except(t) ==
    /\ pc[t] = "cp_except"
    /\ \E del \in delete_outcomes :
          LET preview_dir == preview_path(tok[t]) IN
          IF del = "deleted"
            THEN /\ dirExists' = [dirExists EXCEPT ![tok[t]] = FALSE]
                 /\ fsFiles' = fsFiles \ below(fsFiles, preview_dir)
                 /\ fsDirs' = fsDirs \ below(fsDirs, preview_dir)
                 /\ written' = {w \in written : ~is_relative_to(w.path, preview_dir)}
            ELSE UNCHANGED <<dirExists, fsVars>>
    /\ printed' = printed \cup {<<tok[t], "Error creating preview">>}
    /\ ret' = [ret EXCEPT ![t] = None]
    /\ pc' = [pc EXCEPT ![t] = "done"]
    /\ UNCHANGED <<reqVars, envVars, called, ran, now, previews, lock, proc, procPort, procCwd,
                   extBusy, nextToken, op, via, tok, port, expires_at, current_time,
                   expired_tokens, preview>>

\* ------------------------------------------- get_preview / stop_preview
\* a request handler calls preview_manager.get_preview(token)
get_preview_call(t) ==
    /\ t \in Clients /\ pc[t] = "idle"
    /\ \E token \in Tokens :
          /\ token < nextToken
          /\ tok' = [tok EXCEPT ![t] = token]
    /\ op' = [op EXCEPT ![t] = "get_preview"]
    /\ pc' = [pc EXCEPT ![t] = "gp_lock"]
    /\ UNCHANGED <<srvVars, mgrVars, via, port, expires_at, current_time, expired_tokens,
                   preview, ret>>

\* a request handler calls preview_manager.stop_preview(token), which
\* begins with preview = self.get_preview(token)
stop_preview_call(t) ==
    /\ t \in Clients /\ pc[t] = "idle"
    /\ \E token \in Tokens :
          /\ token < nextToken
          /\ tok' = [tok EXCEPT ![t] = token]
    /\ op' = [op EXCEPT ![t] = "stop_preview"]
    /\ pc' = [pc EXCEPT ![t] = "gp_lock"]
    /\ UNCHANGED <<srvVars, mgrVars, via, port, expires_at, current_time, expired_tokens,
                   preview, ret>>

\* the mutex is held by the caller of _remove_preview on the lazy-expiry
\* path: get_preview calls it inside its `with self.lock`
lock_in_lazy_expiry(t) == t

\* get_preview: with self.lock: the whole body up to a return or to the
\* call of _remove_preview
get_preview(t) ==
    /\ pc[t] = "gp_lock"
    /\ lock = NoLock
    /\ LET p == dict_get(previews, tok[t]) IN
       IF p # NoPreview /\ now < p.expires_at
         THEN \* return preview
              /\ lock' = NoLock
              /\ preview' = [preview EXCEPT ![t] = p]
              /\ via' = via
              /\ IF op[t] = "stop_preview"
                   THEN \* stop_preview: if preview: self._remove_preview(token)
                        /\ pc' = [pc EXCEPT ![t] = "sp_remove"]
                        /\ ret' = ret
                   ELSE /\ pc' = [pc EXCEPT ![t] = "done"]
                        /\ ret' = [ret EXCEPT ![t] = Found(p)]
         ELSE IF p # NoPreview
         THEN \* expired: self._remove_preview(token), the lock still held
              /\ lock' = lock_in_lazy_expiry(t)
              /\ preview' = [preview EXCEPT ![t] = p]
              /\ via' = [via EXCEPT ![t] = "get_preview"]
              /\ pc' = [pc EXCEPT ![t] = "rm_get"]
              /\ ret' = ret
         ELSE \* return None; stop_preview then returns False
              /\ lock' = NoLock
              /\ UNCHANGED <<preview, via>>
              /\ pc' = [pc EXCEPT ![t] = "done"]
              /\ ret' = [ret EXCEPT ![t] =
                           IF op[t] = "stop_preview" THEN Bool(FALSE) ELSE None]
    /\ UNCHANGED <<srvVars, now, previews, dirExists, proc, procPort, procCwd, extBusy, nextToken, op,
                   tok, port, expires_at, current_time, expired_tokens>>

\* stop_preview: self._remove_preview(token)
stop_preview(t) ==
    /\ pc[t] = "sp_remove"
    /\ via' = [via EXCEPT ![t] = "stop_preview"]
    /\ pc' = [pc EXCEPT ![t] = "rm_get"]
    /\ UNCHANGED <<srvVars, mgrVars, op, tok, port, expires_at, current_time, expired_tokens,
                   preview, ret>>

\* ------------------------------------------------------ _remove_preview
\* what the caller does when _remove_preview returns: the new pc, lock and
\* return value of thread t
after_remove(t, lk) ==
    IF via[t] = "get_preview"
      THEN \* leaves `with self.lock` and returns None (stop_preview: False)
           [pc |-> "done", lock |-> NoLock,
            ret |-> IF op[t] = "stop_preview" THEN Bool(FALSE) ELSE None]
    ELSE IF via[t] = "stop_preview"
      THEN [pc |-> "done", lock |-> lk, ret |-> Bool(TRUE)]
    ELSE \* cleanup_expired: next token of the for loop
           [pc |-> "ce_loop", lock |-> lk, ret |-> ret[t]]

\* a _remove_preview that goes on without looking whether the entry is there
remove_preview_get_unchecked(t) ==
    /\ pc[t] = "rm_get"
    /\ pc' = [pc EXCEPT ![t] = "rm_stop"]
    /\ preview' = [preview EXCEPT ![t] = dict_get(previews, tok[t])]
    /\ UNCHANGED <<srvVars, mgrVars, op, via, tok, port, expires_at, current_time,
                   expired_tokens, ret>>

\* preview = self.previews.get(token); if not preview: return
remove_preview_get(t) ==
    /\ pc[t] = "rm_get"
    /\ LET p == dict_get(previews, tok[t]) IN
       IF p = NoPreview
         THEN LET a == after_remove(t, lock) IN
              /\ pc' = [pc EXCEPT ![t] = a.pc]
              /\ lock' = a.lock
              /\ ret' = [ret EXCEPT ![t] = a.ret]
              /\ preview' = preview
         ELSE /\ pc' = [pc EXCEPT ![t] = "rm_stop"]
              /\ preview' = [preview EXCEPT ![t] = p]
              /\ UNCHANGED <<lock, ret>>
    /\ UNCHANGED <<srvVars, now, previews, dirExists, proc, procPort, procCwd, extBusy, nextToken, op,
                   via, tok, port, expires_at, current_time, expired_tokens>>

\* process.terminate(); process.wait(timeout=5): the process exits in time;
\* or the wait times out; or, on a host where signals fail, terminate()
\* raises. A process that has exited already is sent nothing by terminate()
\* and the wait returns at once.
stop_outcomes_dead_waits(alive) ==
    {"exited", "timeout"} \cup (IF faulty THEN {"terminate_raises"} ELSE {})

stop_outcomes(alive) ==
    IF ~alive THEN {"exited"}
    ELSE {"exited", "timeout"} \cup (IF faulty THEN {"terminate_raises"} ELSE {})

\* process.kill() in the bare except: the process is killed, or, on a host
\* where signals fail, kill() raises. A process that has exited meanwhile
\* is sent nothing.
kill_outcomes(alive) ==
    IF ~alive THEN {"killed"}
    ELSE {"killed"} \cup (IF faulty THEN {"kill_raises"} ELSE {})

\* preview_dir.exists() and shutil.rmtree(preview_dir, ignore_errors=True);
\* exists() itself raises OSError where the directory cannot be examined
remove_outcomes == delete_outcomes \cup (IF faulty THEN {"exists_raises"} ELSE {})

\* the steps of the try block that are reached: "process.terminate" is the
\* first statement; "shutil.rmtree" stands for the statement of lines 91-92,
\* reached unless kill() raised, and carried out (the test of exists() made,
\* the tree removed if there is one) unless exists() raised
remove_steps(stop, del) ==
    {"process.terminate"}
    \cup (IF stop # "kill_raises" /\ del # "exists_raises" THEN {"shutil.rmtree"} ELSE {})

\* an outer handler that lets the exception through
outer_except_reraises(e) == e

\* except Exception as e: print(...): the exception ends here
outer_except(e) == "none"

\* the try block of _remove_preview once the stop of the process is over,
\* with the process gone ("exited", "killed") or with the exception of
\* kill(): the directory is removed; an exception of kill() or of exists()
\* ends the block in the outer handler
remove_preview_rmtree(t, stop, del) ==
    LET token == preview[t].token
        preview_dir == preview_path(token)
        e == IF stop = "kill_raises" \/ del = "exists_raises"
               THEN "OSError" ELSE "none"
        deleted == stop # "kill_raises" /\ del = "deleted"
    IN  /\ proc' = [proc EXCEPT ![token] =
                      IF stop = "kill_raises" THEN @ ELSE "stopped"]
        /\ IF deleted
              THEN /\ dirExists' = [dirExists EXCEPT ![token] = FALSE]
                   /\ fsFiles' = fsFiles \ below(fsFiles, preview_dir)
                   /\ fsDirs' = fsDirs \ below(fsDirs, preview_dir)
                   /\ written' = {w \in written : ~is_relative_to(w.path, preview_dir)}
              ELSE UNCHANGED <<dirExists, fsVars>>
        /\ printed' = IF e = "none" THEN printed
                      ELSE printed \cup {<<token, "Error removing preview">>}
        /\ called' = called \cup {<<token, c>> : c \in remove_steps(stop, del)}
        /\ pc' = [pc EXCEPT ![t] =
                    IF outer_except(e) = "none" THEN "rm_pop" ELSE "rm_reraise"]

\* the try block of _remove_preview: terminate() and wait(timeout=5); a
\* process that exited is followed by the removal of the directory, a
\* timeout or an exception leads to the bare except
remove_preview_cleanup(t) ==
    /\ pc[t] = "rm_stop"
    /\ \E stop \in stop_outcomes(proc[preview[t].token] \in {"starting", "listening"}) :
          IF stop = "exited"
            THEN \E del \in remove_outcomes : remove_preview_rmtree(t, stop, del)
            ELSE /\ called' = called \cup {<<preview[t].token, "process.terminate">>}
                 /\ pc' = [pc EXCEPT ![t] = "rm_kill"]
                 /\ UNCHANGED <<proc, dirExists, fsVars, printed>>
    /\ UNCHANGED <<reqVars, envVars, ran, now, previews, lock, procPort, procCwd, extBusy,
                   nextToken, op, via, tok, port, expires_at, current_time,
                   expired_tokens, preview, ret>>

\* except: process.kill(), and the rest of the try block after it
remove_preview_kill(t) ==
    /\ pc[t] = "rm_kill"
    /\ \E stop \in kill_outcomes(proc[preview[t].token] \in {"starting", "listening"}),
          del \in remove_outcomes :
          remove_preview_rmtree(t, stop, del)
    /\ UNCHANGED <<reqVars, envVars, ran, now, previews, lock, procPort, procCwd, extBusy,
                   nextToken, op, via, tok, port, expires_at, current_time,
                   expired_tokens, preview, ret>>

\* threading.Lock is not reentrant: acquire blocks while anyone holds it,
\* the calling thread included
lock_acquirable(t) == lock = NoLock

\* an exception leaves _remove_preview and its caller: a `with self.lock`
\* of the caller is left on the way
raise_from_remove(t) == [pc |-> "done", lock |-> NoLock, ret |-> Raised]

\* finally: with self.lock: self.previews.pop(token, None); then the return,
\* or the exception the handler let through
remove_preview_pop(t) ==
    /\ pc[t] \in {"rm_pop", "rm_reraise"}
    /\ lock_acquirable(t)
    /\ previews' = dict_pop(previews, tok[t])
    /\ LET a == IF pc[t] = "rm_reraise" THEN raise_from_remove(t)
                ELSE after_remove(t, NoLock) IN
       /\ pc' = [pc EXCEPT ![t] = a.pc]
       /\ lock' = a.lock
       /\ ret' = [ret EXCEPT ![t] = a.ret]
    /\ UNCHANGED <<srvVars, now, dirExists, proc, procPort, procCwd, extBusy, nextToken, op, via, tok,
                   port, expires_at, current_time, expired_tokens, preview>>

\* ------------------------------------------------------ cleanup_expired
\* cleanup_loop: time.sleep(60) is over; cleanup_expired: current_time = time.time()
cleanup_expired(t) ==
    /\ t = Reaper /\ pc[t] = "idle"
    /\ op' = [op EXCEPT ![t] = "cleanup_expired"]
    /\ current_time' = [current_time EXCEPT ![t] = now]
    /\ pc' = [pc EXCEPT ![t] = "ce_snap"]
    /\ UNCHANGED <<srvVars, mgrVars, via, tok, port, expires_at, expired_tokens, preview, ret>>

\* a snapshot that takes every token of the registry
RECURSIVE expired_of_all(_, _)
expired_of_all(d, time) ==
    IF d = <<>> THEN <<>> ELSE <<Head(d).token>> \o expired_of_all(Tail(d), time)

\* the tokens whose expires_at the time has reached, in dict order
RECURSIVE expired_of(_, _)
expired_of(d, time) ==
    IF d = <<>> THEN <<>>
    ELSE (IF time >= Head(d).expires_at THEN <<Head(d).token>> ELSE <<>>)
         \o expired_of(Tail(d), time)

\* with self.lock: for token, preview in self.previews.items(): ...
cleanup_expired_snapshot(t) ==
    /\ pc[t] = "ce_snap"
    /\ lock = NoLock
    /\ expired_tokens' = [expired_tokens EXCEPT ![t] = expired_of(previews, current_time[t])]
    /\ pc' = [pc EXCEPT ![t] = "ce_loop"]
    /\ UNCHANGED <<srvVars, mgrVars, op, via, tok, port, expires_at, current_time, preview,
                   ret>>

\* the place of a token in a list of tokens, 0 when it is not there
RECURSIVE index_of(_, _)
index_of(tokens, token) ==
    IF tokens = <<>> THEN 0
    ELSE IF tokens[Len(tokens)] = token THEN Len(tokens)
    ELSE index_of(SubSeq(tokens, 1, Len(tokens) - 1), token)

\* for token in expired_tokens: self._remove_preview(token); the list stays
\* as the snapshot made it, tok is the loop variable: no token before the
\* first iteration, then the element after the one just removed
cleanup_expired_loop(t) ==
    /\ pc[t] = "ce_loop"
    /\ LET i == index_of(expired_tokens[t], tok[t]) IN
       IF i = Len(expired_tokens[t])
         THEN \* back in get_all_previews, or the call is over
              /\ pc' = [pc EXCEPT ![t] =
                          IF op[t] = "get_all_previews" THEN "ga_lock" ELSE "done"]
              /\ UNCHANGED <<tok, via>>
         ELSE /\ tok' = [tok EXCEPT ![t] = expired_tokens[t][i + 1]]
              /\ via' = [via EXCEPT ![t] = "cleanup_expired"]
              /\ pc' = [pc EXCEPT ![t] = "rm_get"]
    /\ UNCHANGED <<srvVars, mgrVars, op, port, expires_at, current_time, preview, ret,
                   expired_tokens>>

\* ----------------------------------------------------- get_all_previews
\* the dict get_all_previews builds: port, expires_at and created_at of
\* every entry, the two times as the numbers their ISO strings are made from
AllPreviews(d) ==
    [kind |-> "dict", ok |-> TRUE, entry |-> NoPreview,
     all |-> {[token |-> d[i].token, port |-> d[i].port,
               expires_at |-> d[i].expires_at, created_at |-> d[i].created_at] :
                 i \in DOMAIN d}]

\* a caller asks for get_all_previews(), which begins with
\* self.cleanup_expired(): current_time = time.time()
get_all_previews_call(t) ==
    /\ t \in Clients /\ pc[t] = "idle"
    /\ op' = [op EXCEPT ![t] = "get_all_previews"]
    /\ current_time' = [current_time EXCEPT ![t] = now]
    /\ pc' = [pc EXCEPT ![t] = "ce_snap"]
    /\ UNCHANGED <<srvVars, mgrVars, via, tok, port, expires_at, expired_tokens, preview, ret>>

\* with self.lock: return {k: {...} for k, v in self.previews.items()}
get_all_previews(t) ==
    /\ pc[t] = "ga_lock"
    /\ lock = NoLock
    /\ ret' = [ret EXCEPT ![t] = AllPreviews(previews)]
    /\ pc' = [pc EXCEPT ![t] = "done"]
    /\ UNCHANGED <<srvVars, mgrVars, op, via, tok, port, expires_at, current_time,
                   expired_tokens, preview>>

\* the call is over: the thread's frame is dropped
Return(t) ==
    /\ pc[t] = "done"
    /\ pc' = [pc EXCEPT ![t] = "idle"]
    /\ op' = [op EXCEPT ![t] = "none"]
    /\ via' = [via EXCEPT ![t] = "none"]
    /\ tok' = [tok EXCEPT ![t] = 0]
    /\ port' = [port EXCEPT ![t] = 0]
    /\ expires_at' = [expires_at EXCEPT ![t] = 0]
    /\ current_time' = [current_time EXCEPT ![t] = 0]
    /\ expired_tokens' = [expired_tokens EXCEPT ![t] = <<>>]
    /\ preview' = [preview EXCEPT ![t] = NoPreview]
    /\ ret' = [ret EXCEPT ![t] = None]
    /\ UNCHANGED <<srvVars, mgrVars>>

\* ---------------------------------------------------------- environment
\* the clock advances
Tick ==
    /\ now + TickSeconds <= MaxTime
    /\ now' = now + TickSeconds
    /\ UNCHANGED <<srvVars, previews, lock, dirExists, proc, procPort, procCwd, extBusy, nextToken,
                   thrVars>>

\* python3 -m http.server <port> binds its port, or exits when it is taken
http_server_bind(token) ==
    /\ proc[token] = "starting"
    /\ proc' = [proc EXCEPT ![token] =
                  IF procPort[token] \in Listening THEN "failed" ELSE "listening"]
    /\ UNCHANGED <<srvVars, now, previews, lock, dirExists, procPort, procCwd, extBusy, nextToken,
                   thrVars>>

\* ------------------------------------------------- serve_preview (main.py)
\* a search that tries index.htm before index.html
RECURSIVE find_index_file_htm_first(_)
find_index_file_htm_first(search_dirs) ==
    IF search_dirs = <<>> THEN NoPath
    ELSE IF is_file(Head(search_dirs) \o <<"index.htm">>)
         THEN Head(search_dirs) \o <<"index.htm">>
    ELSE IF is_file(Head(search_dirs) \o <<"index.html">>)
         THEN Head(search_dirs) \o <<"index.html">>
    ELSE find_index_file_htm_first(Tail(search_dirs))

\* find_index_file(search_dirs): index.html, then index.htm, directory by directory
RECURSIVE find_index_file(_)
find_index_file(search_dirs) ==
    IF search_dirs = <<>> THEN NoPath
    ELSE IF is_file(Head(search_dirs) \o <<"index.html">>)
         THEN Head(search_dirs) \o <<"index.html">>
    ELSE IF is_file(Head(search_dirs) \o <<"index.htm">>)
         THEN Head(search_dirs) \o <<"index.htm">>
    ELSE find_index_file(Tail(search_dirs))

\* the first directory of build_dirs that is a directory holding an index file
RECURSIVE first_build_dir(_, _)
first_build_dir(preview_dir, build_dirs) ==
    IF build_dirs = <<>> THEN NoPath
    ELSE IF /\ is_dir(preview_dir \o <<Head(build_dirs)>>)
            /\ find_index_file(<<preview_dir \o <<Head(build_dirs)>>>>) # NoPath
         THEN preview_dir \o <<Head(build_dirs)>>
    ELSE first_build_dir(preview_dir, Tail(build_dirs))

\* a selection that looks at the session root before the build directories
find_static_dir_root_first(preview_dir) ==
    IF find_index_file(<<preview_dir>>) # NoPath THEN preview_dir
    ELSE IF first_build_dir(preview_dir, <<"dist", "build", "out", "public">>) # NoPath
      THEN first_build_dir(preview_dir, <<"dist", "build", "out", "public">>)
    ELSE IF is_dir(preview_dir \o <<"dist">>) THEN preview_dir \o <<"dist">>
    ELSE preview_dir

\* find_static_dir()
find_static_dir(preview_dir) ==
    IF first_build_dir(preview_dir, <<"dist", "build", "out">>) # NoPath
      THEN first_build_dir(preview_dir, <<"dist", "build", "out">>)
    ELSE IF /\ is_dir(preview_dir \o <<"public">>)
            /\ find_index_file(<<preview_dir \o <<"public">>>>) # NoPath
      THEN preview_dir \o <<"public">>
    ELSE IF find_index_file(<<preview_dir>>) # NoPath THEN preview_dir
    ELSE IF is_dir(preview_dir \o <<"dist">>) THEN preview_dir \o <<"dist">>
    ELSE preview_dir

\* the sub-directories added to search_locations
RECURSIVE existing_subdirs(_, _)
existing_subdirs(preview_dir, subdirs) ==
    IF subdirs = <<>> THEN <<>>
    ELSE (IF exists(preview_dir \o <<Head(subdirs)>>)
            THEN <<preview_dir \o <<Head(subdirs)>>>> ELSE <<>>)
         \o existing_subdirs(preview_dir, Tail(subdirs))

\* the guard without .resolve(): a comparison of the paths as written
within_unresolved(requested_path, static_dir) ==
    is_relative_to(requested_path, static_dir)

\* requested_path.resolve().relative_to(static_dir.resolve()) does not raise
within(requested_path, static_dir) ==
    is_relative_to(resolve(requested_path), resolve(static_dir))

Response(status, detail, file, rewritten) ==
    [status |-> status, detail |-> detail, file |-> file, rewritten |-> rewritten]

\* a synthesis that writes its page into the directory of the session made
\* last
generated_index_path_of_last(static_dir) ==
    preview_path(nextToken - 1) \o <<"index.html">>

\* index_path = static_dir / "index.html", where the synthesized page goes
generated_index_path(static_dir) == static_dir \o <<"index.html">>

\* serve_preview, "if not file_path or file_path == '/'": the entry page
serve_index(preview_dir, static_dir) ==
    LET search_locations ==
            <<static_dir, preview_dir>>
            \o existing_subdirs(preview_dir, <<"dist", "build", "out", "public">>)
        index_path == find_index_file(search_locations)
        is_web_project == \/ exists(preview_dir \o <<"package.json">>)
                          \/ exists(preview_dir \o <<"src">>)
    IN  IF index_path # NoPath
          THEN [resp |-> Response(200, "index", index_path, TRUE), wrote |-> {}]
        ELSE IF is_web_project
          THEN \* index_path.write_text(index_content)
               [resp |-> Response(200, "generated", generated_index_path(static_dir), TRUE),
                wrote |-> {generated_index_path(static_dir)}]
        ELSE [resp |-> Response(404, "no_index", NoPath, FALSE), wrote |-> {}]

\* serve_preview, "Serve requested file": rel is file_path.lstrip("/")
serve_file(preview_dir, static_dir, rel) ==
    LET requested_path == static_dir \o rel
        root_requested_path == preview_dir \o rel
    IN  IF ~within(requested_path, static_dir)
          THEN Response(403, "denied", NoPath, FALSE)
        ELSE IF exists(requested_path) /\ is_file(requested_path)
          THEN Response(200, "file", resolve(requested_path), FALSE)
        ELSE IF exists(requested_path) /\ is_dir(requested_path)
               /\ find_index_file(<<requested_path>>) # NoPath
          THEN Response(200, "dir_index", resolve(find_index_file(<<requested_path>>)), FALSE)
        ELSE IF exists(requested_path)
          THEN Response(404, "dir_no_index", NoPath, FALSE)
        ELSE IF /\ exists(root_requested_path)
                /\ root_requested_path # requested_path
                /\ within(root_requested_path, preview_dir)
                /\ is_file(root_requested_path)
          THEN Response(200, "root_file", resolve(root_requested_path), FALSE)
        ELSE Response(404, "file_not_found", NoPath, FALSE)

\* the paths the root fallback hands to exists() before any guard is
\* evaluated on them: root_requested_path, once the lookup below static_dir
\* has passed its guard and found nothing
fallback_probes(preview_dir, static_dir, rel) ==
    IF within(static_dir \o rel, static_dir) /\ ~exists(static_dir \o rel)
      THEN {preview_dir \o rel} ELSE {}

\* Path.suffix of the file names that occur
suffix(name) ==
    CASE name \in {"index.html", "about.html", "evil.html"} -> ".html"
      [] name = "index.htm" -> ".htm"
      [] name = "a.css" -> ".css"
      [] name \in {"app.js", "main.js"} -> ".js"
      [] name = "package.json" -> ".json"
      [] OTHER -> ""

mime_types ==
    [ext \in {".html", ".htm", ".css", ".js", ".mjs", ".json", ".png", ".jpg",
              ".jpeg", ".gif", ".svg", ".ico", ".woff", ".woff2", ".ttf", ".eot",
              ".xml", ".txt"} |->
        CASE ext \in {".html", ".htm"} -> "text/html"
          [] ext = ".css" -> "text/css"
          [] ext \in {".js", ".mjs"} -> "application/javascript"
          [] ext = ".json" -> "application/json"
          [] ext = ".png" -> "image/png"
          [] ext \in {".jpg", ".jpeg"} -> "image/jpeg"
          [] ext = ".gif" -> "image/gif"
          [] ext = ".svg" -> "image/svg+xml"
          [] ext = ".ico" -> "image/x-icon"
          [] ext = ".woff" -> "font/woff"
          [] ext = ".woff2" -> "font/woff2"
          [] ext = ".ttf" -> "font/ttf"
          [] ext = ".eot" -> "application/vnd.ms-fontobject"
          [] ext = ".xml" -> "application/xml"
          [] OTHER -> "text/plain"]

\* a get_mime_type that knows no extension
get_mime_type_octet(file_path) == "application/octet-stream"

\* get_mime_type(file_path)
get_mime_type(file_path) ==
    LET ext == IF file_path = <<>> THEN "" ELSE suffix(file_path[Len(file_path)])
    IN  IF ext \in DOMAIN mime_types THEN mime_types[ext]
        ELSE "application/octet-stream"

\* value.startswith(p), both cut into pieces
startswith(value, p) == Len(p) <= Len(value) /\ SubSeq(value, 1, Len(p)) = p

\* value.lstrip("/")
RECURSIVE lstrip(_)
lstrip(value) ==
    IF value # <<>> /\ Head(value) = "/" THEN lstrip(Tail(value)) ELSE value

\* a prefix without its leading slash
proxy_prefix_relative(token) == <<"preview", "/", token_name(token), "/">>

\* f'/preview/{token}/'
proxy_prefix(token) == <<"/", "preview", "/", token_name(token), "/">>

\* rewrite_link(match), on the value of the href
rewrite_link(token, href_path) ==
    IF \/ startswith(href_path, <<"http">>)
       \/ startswith(href_path, <<"/", "/">>)
       \/ startswith(href_path, <<"/", "preview", "/">>)
      THEN href_path
      ELSE proxy_prefix(token) \o lstrip(href_path)

\* a rewrite_script that leaves every src as it is
rewrite_script_kept(token, src_path) == src_path

\* rewrite_script(match), on the value of the src
rewrite_script(token, src_path) ==
    IF \/ startswith(src_path, <<"http">>)
       \/ startswith(src_path, <<"/", "/">>)
       \/ startswith(src_path, <<"/", "preview", "/">>)
      THEN src_path
      ELSE proxy_prefix(token) \o lstrip(src_path)

\* the two re.sub calls: the href of a <link ...>, the src of a <script ...>
rewrite_html(token, page) ==
    IF page.tag = "link"
      THEN [page EXCEPT !.value = rewrite_link(token, page.value)]
    ELSE IF page.tag = "script"
      THEN [page EXCEPT !.value = rewrite_script(token, page.value)]
    ELSE page

\* main_entry: the first of the known entry files that src holds
RECURSIVE main_entry(_, _)
main_entry(src_dir, names) ==
    IF names = <<>> THEN "none"
    ELSE IF exists(src_dir \o <<Head(names)>>) THEN Head(names)
    ELSE main_entry(src_dir, Tail(names))

\* index_content: the page synthesized for a project without index.html
index_content(preview_dir) ==
    LET found == IF exists(preview_dir \o <<"src">>)
                   THEN main_entry(preview_dir \o <<"src">>,
                                   <<"main.tsx", "main.jsx", "main.ts", "main.js",
                                     "index.tsx", "index.jsx">>)
                   ELSE "none"
        is_react == exists(preview_dir \o <<"package.json">>) /\ zip_data.react
        name == IF found # "none" THEN found
                ELSE IF is_react THEN "main.jsx" ELSE "main.js"
    IN  [tag |-> "script", value |-> <<"/", "src", "/", name>>]

\* index_path.read_text(): the text serve_preview wrote there, else the
\* text the archive gave its HTML files
read_text(path) ==
    IF \E w \in written : w.path = path
      THEN (CHOOSE w \in written : w.path = path).text
      ELSE zip_data.html

\* read_text succeeds, or, where reads fail, raises
read_outcomes == IF faulty THEN BOOLEAN ELSE {TRUE}

\* the media_type handed to HTMLResponse or FileResponse; an HTTPException
\* is answered as JSON
media_type_of(resp) ==
    IF resp.status # 200 THEN "application/json"
    ELSE IF resp.detail \in {"generated", "dir_index"} THEN "text/html"
    ELSE get_mime_type(resp.file)

\* the reference in the body of the response: HTMLResponse(content=
\* html_content) carries the rewritten text, FileResponse the file as it is
body_of(token, preview_dir, resp) ==
    IF resp.status # 200 THEN NoRef
    ELSE IF resp.detail = "generated"
      THEN rewrite_html(token, index_content(preview_dir))
    ELSE IF resp.detail = "index" /\ resp.rewritten
      THEN rewrite_html(token, read_text(resp.file))
    ELSE IF get_mime_type(resp.file) = "text/html" THEN read_text(resp.file)
    ELSE NoRef

\* GET /preview/{token}/{file_path:path}: file_path is `lead` slashes followed
\* by the segments segs joined with "/"
serve_preview(token, lead, segs) ==
    /\ lock = NoLock
    /\ LET p == dict_get(previews, token) IN
       /\ p # NoPreview => now < p.expires_at
       /\ IF p = NoPreview
            THEN /\ response' = Response(404, "not_found", NoPath, FALSE)
                 /\ served_from' = NoPath
                 /\ media_type' = "application/json"
                 /\ content' = NoRef
                 /\ UNCHANGED <<fsFiles, written>>
            ELSE LET preview_dir == preview_path(p.token)
                     root == find_static_dir(preview_dir)
                     entry == serve_index(preview_dir, root)
                     is_entry == segs = <<>> /\ lead <= 1
                     resp == IF is_entry THEN entry.resp
                             ELSE serve_file(preview_dir, root, segs)
                     wrote == IF is_entry THEN entry.wrote ELSE {}
                 IN  \E readable \in read_outcomes :
                        /\ response' = IF ~readable /\ resp.detail = "index"
                                         THEN \* except: FileResponse(index_path)
                                              [resp EXCEPT !.rewritten = FALSE]
                                         ELSE resp
                        /\ served_from' = root
                        /\ media_type' = media_type_of(response')
                        /\ content' = body_of(token, preview_dir, response')
                        /\ fsFiles' = fsFiles \cup wrote
                        /\ written' = written \cup
                              {[path |-> f, text |-> index_content(preview_dir)] :
                                  f \in wrote}
    /\ UNCHANGED <<mgrVars, thrVars, fsDirs, request, envVars, printed, called, ran>>

ThreadStep(t) ==
    \/ create_preview(t)
    \/ find_available_port(t)
    \/ start_preview_server(t)
    \/ register_preview_time(t)
    \/ register_preview(t)
    \/ create_preview_return(t)
    \/ create_preview_except(t)
    \/ get_preview_call(t)
    \/ stop_preview_call(t)
    \/ get_preview(t)
    \/ stop_preview(t)
    \/ remove_preview_get(t)
    \/ remove_preview_cleanup(t)
    \/ remove_preview_kill(t)
    \/ remove_preview_pop(t)
    \/ cleanup_expired(t)
    \/ cleanup_expired_snapshot(t)
    \/ cleanup_expired_loop(t)
    \/ Return(t)

Next ==
    \/ \E t \in Threads : ThreadStep(t)
    \/ \E token \in Tokens : http_server_bind(token)
    \/ Tick

Spec == Init /\ [][Next]_vars

\* A call that has begun runs on, and cleanup_loop wakes up again and again.
\* Only one request thread is at work here; the other never makes a call.
Continue(t) == pc[t] # "idle" /\ ThreadStep(t)
SoloThreads == [t \in Threads |-> IF t = "c2" THEN "off" ELSE "idle"]
InitSolo == InitWith(SoloThreads, {SiteZip}, {FALSE}, {NoRequest})
FairSpec ==
    /\ InitSolo
    /\ [][Next]_vars
    /\ \A t \in Threads : WF_vars(Continue(t))
    /\ WF_vars(cleanup_expired(Reaper))

\* The same threads on a host where signals, deletions and reads can fail.
InitFault == InitWith(SoloThreads, {SiteZip}, {TRUE}, {NoRequest})
FaultSpec == InitFault /\ [][Next]_vars

\* Provisioning alone: a request thread uploads an archive whose members
\* may be named "/etc/passwd", "../../evil.html" or "", with or without a
\* package.json and a build script.
Members == {<<"index.html">>, <<"package.json">>, <<"", "etc", "passwd">>,
            <<"..", "..", "evil.html">>, <<"">>}
Archives ==
    UNION {{[files |-> files, build_script |-> b, react |-> FALSE, html |-> SitePage] :
              b \in (IF <<"package.json">> \in files THEN BOOLEAN ELSE {FALSE})} :
           files \in SUBSET Members}

ProvStep(t) ==
    \/ create_preview(t)
    \/ find_available_port(t)
    \/ start_preview_server(t)
    \/ register_preview_time(t)
    \/ register_preview(t)
    \/ create_preview_return(t)
    \/ create_preview_except(t)
    \/ Return(t)

ProvNext ==
    \/ \E t \in Clients : ProvStep(t)
    \/ \E token \in Tokens : http_server_bind(token)
    \/ Tick

InitProv ==
    InitWith([t \in Threads |-> IF t = "c1" THEN "idle" ELSE "off"],
             Archives, {FALSE}, {NoRequest})

ProvSpec == InitProv /\ [][ProvNext]_vars

\* ------------------------------------------- serving one live session
\* path segments a request is made of
Segments == {"..", "etc", "passwd", "dist"}
FilePaths == UNION {[1..n -> Segments] : n \in 0..MaxPathLen}

\* files a generated project may hold, relative to its directory
LayoutFiles == {<<"index.html">>, <<"dist", "index.html">>, <<"etc", "passwd">>,
                <<"dist", "etc", "passwd">>, <<"package.json">>}
\* files of the host outside every preview directory
HostFiles == {<<"etc", "passwd">>}

\* one session, token 1, is registered and live; its directory holds one of
\* the layouts, its HTML files one of the pages
InitLive(layouts, pages, hosts, requests) ==
    /\ now = 0
    /\ previews = <<[token |-> 1, port |-> StartPort, expires_at |-> TTL,
                     created_at |-> 0]>>
    /\ lock = NoLock
    /\ dirExists = [t \in Tokens |-> t = 1]
    /\ proc = [t \in Tokens |-> IF t = 1 THEN "listening" ELSE "none"]
    /\ procPort = [t \in Tokens |-> IF t = 1 THEN StartPort ELSE 0]
    /\ extBusy = {}
    /\ nextToken = 2
    /\ pc = [t \in Threads |-> "idle"]
    /\ op = [t \in Threads |-> "none"]
    /\ via = [t \in Threads |-> "none"]
    /\ tok = [t \in Threads |-> 0]
    /\ port = [t \in Threads |-> 0]
    /\ expires_at = [t \in Threads |-> 0]
    /\ current_time = [t \in Threads |-> 0]
    /\ expired_tokens = [t \in Threads |-> <<>>]
    /\ preview = [t \in Threads |-> NoPreview]
    /\ ret = [t \in Threads |-> None]
    /\ \E layout \in layouts :
          /\ fsFiles = HostFiles \cup {preview_path(1) \o f : f \in layout}
          /\ fsDirs = UNION {prefixes(f) : f \in HostFiles
                                \cup {preview_path(1) \o g : g \in layout}
                                \cup {preview_path(1) \o <<"x">>}}
          /\ \E page \in pages,
                react \in (IF <<"package.json">> \in layout THEN BOOLEAN ELSE {FALSE}) :
                zip_data = [files |-> layout, build_script |-> FALSE,
                            react |-> react, html |-> page]
    /\ procCwd = [t \in Tokens |->
                    IF t = 1 THEN find_static_files(preview_path(1)) ELSE NoPath]
    /\ written = {}
    /\ request \in requests
    /\ response = NoResponse
    /\ served_from = NoPath
    /\ media_type = "none"
    /\ content = NoRef
    /\ faulty \in hosts
    /\ printed = {}
    /\ called = {}
    /\ ran = [t \in Tokens |-> <<>>]

InitServe ==
    InitLive(SUBSET LayoutFiles, {SitePage}, {FALSE},
             [token : 1..2, lead : 0..MaxLead, segs : FilePaths])

\* layouts with the conventional build directories: an entry page and another
\* file in each of them, an entry page in the root and in a directory docs
PageFiles == {<<"index.html">>, <<"index.htm">>,
              <<"dist", "index.html">>, <<"dist", "index.htm">>, <<"dist", "app.js">>,
              <<"build", "index.html">>, <<"build", "app.js">>,
              <<"out", "index.html">>, <<"out", "app.js">>,
              <<"public", "index.html">>, <<"public", "app.js">>,
              <<"docs", "index.html">>}

\* the entry page as "" and as "/", an HTML file and a directory by sub-path
PageRequests == [token : {1}, lead : {0}, segs : {<<>>, <<"index.html">>, <<"docs">>}]
                \cup {[token |-> 1, lead |-> 1, segs |-> <<>>]}

\* a page whose script is addressed from the root of the site
AppPage == [tag |-> "script", value |-> <<"/", "app.js">>]

InitPage == InitLive(SUBSET PageFiles, {AppPage}, {FALSE}, PageRequests)

\* the browser sends its request, any number of times
ServeNext == serve_preview(request.token, request.lead, request.segs)

ServeSpec == InitServe /\ [][ServeNext]_vars

PageSpec == InitPage /\ [][ServeNext]_vars

\* layouts for the resolution of sub-paths: files in the root and in dist, a
\* directory docs with an entry page in the root and without one in dist
ResolveFiles == {<<"index.html">>, <<"dist", "index.html">>, <<"a.css">>,
                 <<"dist", "a.css">>, <<"app.js">>, <<"package.json">>,
                 <<"docs", "index.htm">>, <<"dist", "docs", "main.js">>}

\* requests for a file, for a directory, for a path through "..", for a file
\* that is nowhere, and for "//", which names the serving root itself
ResolveRequests ==
    [token : {1}, lead : {0},
     segs : {<<"a.css">>, <<"app.js">>, <<"package.json">>, <<"docs">>,
             <<"docs", "..", "a.css">>, <<"missing.txt">>}]
    \cup {[token |-> 1, lead |-> 2, segs |-> <<>>]}

InitResolve == InitLive(SUBSET ResolveFiles, {SitePage}, {FALSE}, ResolveRequests)
ResolveSpec == InitResolve /\ [][ServeNext]_vars

\* layouts of projects: with and without manifest, sources, build output
\* and entry page
SynthFiles == {<<"package.json">>, <<"src", "main.js">>, <<"src", "index.jsx">>,
               <<"dist", "app.js">>, <<"public", "app.js">>, <<"a.css">>,
               <<"build", "index.html">>}
InitSynth ==
    InitLive(SUBSET SynthFiles, {SitePage}, {FALSE},
             [token : {1}, lead : {0, 1}, segs : {<<>>}])
SynthSpec == InitSynth /\ [][ServeNext]_vars

\* the pieces a reference is made of, and the references of a page
Pieces == {"http", "data", ":", "/", "preview", "a.css"}
Pages == [tag : {"link", "script"},
          value : UNION {[1..n -> Pieces] : n \in 1..MaxRefLen}]

\* a session holding index.html alone, with any page in it, asked for its
\* entry page
InitRewrite ==
    InitLive({{<<"index.html">>}}, Pages, BOOLEAN,
             {[token |-> 1, lead |-> 0, segs |-> <<>>]})

RewriteSpec == InitRewrite /\ [][ServeNext]_vars

\* the end-to-end example: the archive SiteZip is uploaded, its session is
\* looked up, stopped, swept and served
SiteRequests == [token : {1}, lead : {0}, segs : {<<>>, <<"a.css">>}]
InitSite == InitWith(SoloThreads, {SiteZip}, {FALSE}, SiteRequests)
SiteNext == Next \/ ServeNext
SiteSpec == InitSite /\ [][SiteNext]_vars

\* every operation of the manager and the proxy: the calls of Next, the
\* debugging call get_all_previews and the requests of a browser
RegistryNext ==
    \/ Next
    \/ \E t \in Clients : get_all_previews_call(t) \/ get_all_previews(t)
    \/ ServeNext
RegistrySpec == InitSite /\ [][RegistryNext]_vars

\* Provisioning and serving of projects with a build: the archive holds a
\* manifest, with or without a build script, and an entry page under either
\* of its two names; the session made from it is asked for its entry page.
BuildMembers == {<<"index.html">>, <<"index.htm">>, <<"package.json">>}
BuildArchives ==
    UNION {{[files |-> files, build_script |-> b, react |-> FALSE, html |-> SitePage] :
              b \in (IF <<"package.json">> \in files THEN BOOLEAN ELSE {FALSE})} :
           files \in SUBSET BuildMembers}
InitBuild ==
    InitWith([t \in Threads |-> IF t = "c1" THEN "idle" ELSE "off"],
             BuildArchives, {FALSE}, {[token |-> 1, lead |-> 0, segs |-> <<>>]})
BuildNext == ProvNext \/ ServeNext
BuildSpec == InitBuild /\ [][BuildNext]_vars

\* two sessions side by side, each made from the archive of a project
\* without entry page: the browser asks the first one for its entry page,
\* for a file it does not hold, and for a file of the second
ProjectZip == [files |-> {<<"package.json">>, <<"src", "main.js">>},
               build_script |-> FALSE, react |-> FALSE, html |-> NoRef]
NeighbourRequests ==
    [token : {1}, lead : {0},
     segs : {<<>>, <<"a.css">>, <<"..", token_name(2), "index.html">>}]
\* what a request thread does: creations, lookups and stops
ClientStep(t) ==
    \/ ProvStep(t)
    \/ get_preview_call(t)
    \/ stop_preview_call(t)
    \/ get_preview(t)
    \/ stop_preview(t)
    \/ remove_preview_get(t)
    \/ remove_preview_cleanup(t)
    \/ remove_preview_kill(t)
    \/ remove_preview_pop(t)
NeighbourNext ==
    \/ \E t \in Clients : ClientStep(t)
    \/ \E token \in Tokens : http_server_bind(token)
    \/ Tick
    \/ ServeNext
InitNeighbours ==
    InitWith([t \in Threads |-> IF t = "c1" THEN "idle" ELSE "off"],
             {ProjectZip}, {FALSE}, NeighbourRequests)
NeighbourSpec == InitNeighbours /\ [][NeighbourNext]_vars

\* =================================================================== C5
\* the request of the state has been answered for the registered session by
\* the sub-path branch of serve_preview
ServedFile ==
    /\ response # NoResponse
    /\ request.token \in Registered
    /\ ~(request.segs = <<>> /\ request.lead <= 1)

ServingRoot == find_static_dir(preview_path(request.token))

\* the path the request names when its leading slash is taken as written:
\* an absolute path of the host, else a path below the serving root
AsWritten == IF request.lead >= 1 THEN request.segs ELSE ServingRoot \o request.segs

\* C5 (as claimed): every answered request whose non-empty path escapes the
\* serving root, through ".." segments or as an absolute path, is answered
\* 403 Access denied.
C5_EscapingPathDenied ==
    (ServedFile /\ ~is_relative_to(resolve(AsWritten), resolve(ServingRoot)))
        => response.status = 403

\* C5 (amended): leading slashes are stripped, so only the ".." escapes are
\* denied: the answer is 403 exactly when the stripped path resolves outside
\* the serving root; and whatever the path, a file that is served lies inside
\* the session's directory.
C5_TraversalGuard ==
    ServedFile =>
        /\ response.status = 403
              <=> ~is_relative_to(resolve(ServingRoot \o request.segs), ServingRoot)
        /\ response.status = 200
              => is_relative_to(response.file, preview_path(request.token))

\* "/etc/passwd" has been answered with the session's own etc/passwd
C5_Witness ==
    /\ ServedFile
    /\ request.lead = 1 /\ request.segs = <<"etc", "passwd">>
    /\ response.status = 200
    /\ response.file = ServingRoot \o <<"etc", "passwd">>

\* ======================================================== C1 .. C4
Expired(token) ==
    token \in Registered /\ now >= dict_get(previews, token).expires_at

\* the teardown of a token is complete
Torn(token) ==
    token \notin Registered /\ proc[token] = "stopped" /\ ~dirExists[token]

InRemove(t, token) ==
    pc[t] \in {"rm_get", "rm_stop", "rm_kill", "rm_pop", "rm_reraise"} /\ tok[t] = token

\* C1: a get_preview that finds its session expired runs the teardown and
\* then returns None: the process is stopped, the directory deleted and the
\* entry erased when it returns.
C1_ExpiredLookupReturnsNone ==
    \A t \in Clients :
        (op[t] = "get_preview" /\ via[t] = "get_preview" /\ pc[t] = "rm_get")
            ~> (pc[t] = "done" /\ ret[t] = None /\ Torn(tok[t]))

\* C2: with the reaper thread scheduled fairly, every registered session
\* whose expires_at has passed is eventually torn down: its directory is
\* deleted and its entry leaves the registry.
C2_ExpiredEventuallySwept ==
    \A token \in Tokens :
        Expired(token) ~> (token \notin Registered /\ ~dirExists[token])

\* C3: when two threads run _remove_preview for the same token at the same
\* time, both calls return and the token is then absent from the registry.
C3_ConcurrentRemoveReturns ==
    \A token \in Tokens :
        (\E t, u \in Threads : t # u /\ InRemove(t, token) /\ InRemove(u, token))
            ~> ((\A t \in Threads : ~InRemove(t, token)) /\ token \notin Registered)

C6_NoSharedPort ==
    \A i, j \in DOMAIN previews : i # j => previews[i].port # previews[j].port

\* C6 (amended): find_available_port returns a port only when nothing listens
\* on it at the moment of the probe, so a creation never takes the port a
\* session's process has already bound.
C6_ProbedPortWasFree ==
    [][\A t \in Clients :
          (pc[t] = "cp_find" /\ pc'[t] = "cp_start") => port'[t] \notin Listening]_vars

\* a creation has passed over the port of a registered, listening session
C6_Witness ==
    \E t \in Clients, token \in Tokens :
        /\ pc[t] = "cp_start" /\ port[t] = StartPort + 1
        /\ token \in Registered /\ proc[token] = "listening"
        /\ procPort[token] = StartPort

\* C7: a token of the registry denotes a session whose directory exists and
\* whose process the manager has not stopped.
C7_RegisteredHasResources ==
    \A token \in Registered : dirExists[token] /\ proc[token] # "stopped"

\* C8: no thread holds the registry mutex while it stops a process or deletes
\* a directory tree.
C8_NoSlowStepUnderLock ==
    \A t \in Threads : pc[t] \in {"rm_stop", "rm_kill"} => lock # t

\* C9: a lookup of a live session is never left waiting for a mutex that an
\* operation on another session will never release.
C9_LookupNeverStuckBehindOther ==
    \A t \in Clients :
        (pc[t] = "gp_lock" /\ op[t] = "get_preview"
            /\ tok[t] \in Registered /\ ~Expired(tok[t]))
        => ~(\E u \in Threads : u # t /\ lock = u /\ pc[u] = "rm_pop"
                                  /\ tok[u] # tok[t])

Served == response # NoResponse /\ request.token \in Registered

\* the request asked for the entry page
EntryRequest == request.segs = <<>> /\ request.lead <= 1

HasEntry(dir) ==
    is_file(dir \o <<"index.html">>) \/ is_file(dir \o <<"index.htm">>)

\* the least number of a non-empty set of numbers
Least(S) == CHOOSE i \in S : \A j \in S : i <= j

\* C12: the serving root is the first of dist, build, out, public that is a
\* directory holding an entry page, else the session root if it holds one,
\* else dist if that directory exists, else the session root.
C12_ServingRootPriority ==
    Served =>
        LET root == preview_path(request.token)
            cand == <<root \o <<"dist">>, root \o <<"build">>, root \o <<"out">>,
                      root \o <<"public">>, root>>
            hits == {i \in 1..5 : is_dir(cand[i]) /\ HasEntry(cand[i])}
        IN  served_from = IF hits # {} THEN cand[Least(hits)]
                          ELSE IF is_dir(root \o <<"dist">>) THEN root \o <<"dist">>
                          ELSE root

\* dist exists without an entry page, out and the root hold one: out is chosen
C12_Witness ==
    /\ Served
    /\ is_dir(preview_path(1) \o <<"dist">>) /\ ~HasEntry(preview_path(1) \o <<"dist">>)
    /\ ~is_dir(preview_path(1) \o <<"build">>)
    /\ HasEntry(preview_path(1) \o <<"out">>)
    /\ HasEntry(preview_path(1) \o <<"public">>)
    /\ HasEntry(preview_path(1))
    /\ served_from = preview_path(1) \o <<"out">>

\* C13: a request for the entry page is answered with the first file found
\* among index.html, index.htm of the serving root, of the session root, of
\* dist, of build, of out and of public, in this order; with index.html in the
\* root and in dist, it is the one of dist.
C13_EntryPageOrder ==
    (Served /\ EntryRequest) =>
        LET root == preview_path(request.token)
            dirs == <<served_from, root, root \o <<"dist">>, root \o <<"build">>,
                      root \o <<"out">>, root \o <<"public">>>>
            cand == [i \in 1..12 |->
                        dirs[(i + 1) \div 2]
                            \o <<IF i % 2 = 1 THEN "index.html" ELSE "index.htm">>]
            hits == {i \in 1..12 : is_file(cand[i])}
        IN  /\ hits # {} => /\ response.status = 200
                            /\ response.file = cand[Least(hits)]
            /\ hits = {} => response.detail \notin {"index"}
            /\ (is_file(root \o <<"index.html">>)
                    /\ is_file(root \o <<"dist", "index.html">>))
                => response.file = root \o <<"dist", "index.html">>

\* the root holds index.html, dist holds index.htm and index.html: the
\* index.html of dist is served
C13_Witness ==
    /\ Served /\ EntryRequest
    /\ is_file(preview_path(1) \o <<"index.html">>)
    /\ is_file(preview_path(1) \o <<"dist", "index.htm">>)
    /\ is_file(preview_path(1) \o <<"dist", "index.html">>)
    /\ response.file = preview_path(1) \o <<"dist", "index.html">>

\* the value of a reference starts with a scheme
StartsWithScheme(value) ==
    Len(value) >= 2 /\ value[1] \in {"http", "data"} /\ value[2] = ":"

\* C14: in an entry page served rewritten for a token, a reference whose
\* value starts with a scheme, with "//" or with "/preview/" is left as it
\* is, and every other one becomes "/preview/<token>/" followed by the value
\* without its leading slashes.
C14_ReferenceRewrite ==
    (Served /\ EntryRequest /\ response.status = 200 /\ response.rewritten) =>
        LET value == zip_data.html.value IN
        content.value =
            IF \/ StartsWithScheme(value)
               \/ startswith(value, <<"/", "/">>)
               \/ startswith(value, <<"/", "preview", "/">>)
              THEN value
              ELSE proxy_prefix(request.token) \o lstrip(value)

\* C15: every HTML response of serve_preview carries the rewritten text of
\* the file it serves: the entry page, the synthesized page, an HTML file
\* reached by a sub-path and the entry page of a sub-directory.
C15_EveryHtmlRewritten ==
    (Served /\ response.status = 200 /\ media_type = "text/html") =>
        content = rewrite_html(request.token, read_text(response.file))

\* no teardown of the session has begun, and it has not expired
Intact(token) ==
    /\ token \in Registered /\ ~Expired(token)
    /\ \A t \in Threads : ~InRemove(t, token)

\* C16: once create_preview has registered the session of the archive
\* {index.html linking a.css, a.css}, and as long as the session is neither
\* expired nor being torn down, a request for "" is answered with HTML whose
\* link is "/preview/<token>/a.css", and a request for "a.css" with the
\* file a.css of the session and the media type text/css.
C16_EndToEnd ==
    [][(Intact(request.token) /\ response' # response) =>
          IF request.segs = <<>>
            THEN /\ response'.status = 200
                 /\ media_type' = "text/html"
                 /\ content' = [tag |-> "link",
                                value |-> <<"/", "preview", "/",
                                            token_name(request.token), "/", "a.css">>]
            ELSE /\ response'.status = 200
                 /\ response'.file = preview_path(request.token) \o <<"a.css">>
                 /\ media_type' = "text/css"]_vars

\* the session create_preview made has been served its rewritten entry page
C16_Witness ==
    /\ Served /\ Intact(request.token)
    /\ \E t \in Clients :
          pc[t] = "done" /\ op[t] = "create_preview" /\ tok[t] = request.token
    /\ response.status = 200 /\ response.rewritten
    /\ content.value = <<"/", "preview", "/", "T1", "/", "a.css">>

\* the name of a member is empty, absolute, or leads out of the directory
\* it is joined to
BadMember(member) ==
    \/ member = <<"">>
    \/ Head(member) = ""
    \/ ~is_relative_to(resolve(PREVIEW_BASE_DIR \o member), PREVIEW_BASE_DIR)

\* nothing but empty, "." and ".." components
NamesNothing(member) == \A i \in DOMAIN member : member[i] \in {"", ".", ".."}

\* C17 (as claimed): a create_preview whose archive holds a member with an
\* empty, absolute or escaping name fails: it never gets past the extraction.
C17_BadArchiveRejected ==
    \A t \in Clients :
        (op[t] = "create_preview" /\ \E m \in zip_data.files : BadMember(m))
            => (pc[t] = "cp_except" \/ (pc[t] = "done" /\ ret[t] = None))

\* C17 (amended): the extraction writes nothing outside the session's
\* directory: every file lies below the directory of a token and has no
\* empty, "." or ".." component; it raises exactly when a member names
\* nothing but such components (the empty name), and otherwise every member,
\* absolute and escaping ones included, is written inside the directory under
\* what is left of its name.
C17_ExtractionConfined ==
    /\ [](\A f \in fsFiles :
            /\ \E token \in Tokens : is_relative_to(f, preview_path(token))
            /\ \A i \in DOMAIN f : f[i] \notin {"", ".", ".."})
    /\ [][\A t \in Clients :
            (pc[t] = "idle" /\ op'[t] = "create_preview") =>
                /\ pc'[t] = "cp_except" <=> \E m \in zip_data.files : NamesNothing(m)
                /\ pc'[t] # "cp_except" =>
                      \A m \in zip_data.files :
                          \E f \in fsFiles' :
                              /\ is_relative_to(f, preview_path(tok'[t]))
                              /\ f[Len(f)] = m[Len(m)]]_vars

\* a session has been created from an archive with "/etc/passwd" and
\* "../../evil.html": both files lie in its directory
C17_Witness ==
    \E t \in Clients :
        /\ pc[t] = "done" /\ op[t] = "create_preview" /\ ret[t] # None
        /\ {<<"", "etc", "passwd">>, <<"..", "..", "evil.html">>} \subseteq zip_data.files
        /\ preview_path(tok[t]) \o <<"etc", "passwd">> \in fsFiles
        /\ preview_path(tok[t]) \o <<"evil.html">> \in fsFiles

InstallWarning == "Warning: Failed to install dependencies, continuing anyway"
BuildWarning == "Warning: Build failed, serving source files"

\* create_preview has printed a warning for the token
WarnedIn(out, token) ==
    <<token, InstallWarning>> \in out \/ <<token, BuildWarning>> \in out
Warned(token) == WarnedIn(printed, token)

\* C18: a create_preview whose install or build failed goes on to the port
\* allocation; from there only the port scan and Popen can make it fail; and
\* when it returns its PreviewInfo the session is registered with a process
\* started on its port.
C18_DegradedProvisioningGoesOn ==
    /\ [][\A t \in Clients :
            (pc[t] = "idle" /\ op'[t] = "create_preview"
                /\ WarnedIn(printed', nextToken))
                => pc'[t] = "cp_find"]_vars
    /\ [][\A t \in Clients :
            (Warned(tok[t]) /\ pc[t] # "cp_except" /\ pc'[t] = "cp_except")
                => pc[t] \in {"cp_find", "cp_start"}]_vars
    /\ [](\A t \in Clients :
            (pc[t] = "done" /\ op[t] = "create_preview" /\ Warned(tok[t])
                /\ ret[t] # None)
            => /\ ret[t].kind = "PreviewInfo"
               /\ tok[t] \in Registered
               /\ proc[tok[t]] # "none"
               /\ procPort[tok[t]] = dict_get(previews, tok[t]).port)

\* a create_preview has returned its PreviewInfo after both warnings
C18_Witness ==
    \E t \in Clients :
        /\ pc[t] = "done" /\ op[t] = "create_preview"
        /\ ret[t].kind = "PreviewInfo"
        /\ <<tok[t], InstallWarning>> \in printed
        /\ <<tok[t], BuildWarning>> \in printed
        /\ tok[t] \in Registered /\ proc[tok[t]] = "listening"

\* C19: every entry of the registry expires exactly PREVIEW_DURATION_MINUTES
\* after the time it records as its creation.
C19_ExpiryIsCreationPlusTTL ==
    \A i \in DOMAIN previews :
        previews[i].expires_at = previews[i].created_at + TTL

\* the registry, the directories, the files and the processes stay as they are
NothingTouched == UNCHANGED <<previews, dirExists, proc, procPort, fsFiles, fsDirs>>

\* C20: for a token that is not in the registry, _remove_preview returns at
\* once without raising and stop_preview returns False, and neither changes
\* the registry, a directory or a process.
C20_AbsentTeardownIsNoOp ==
    /\ [][\A t \in Threads :
            (pc[t] = "rm_get" /\ tok[t] \notin Registered /\ pc'[t] # pc[t])
                => /\ pc'[t] \notin {"rm_stop", "rm_kill", "rm_pop", "rm_reraise"}
                   /\ ret'[t] # Raised
                   /\ NothingTouched]_vars
    /\ [][\A t \in Clients :
            (op[t] = "stop_preview" /\ pc[t] = "gp_lock" /\ tok[t] \notin Registered
                /\ pc'[t] # pc[t])
                => /\ pc'[t] = "done" /\ ret'[t] = Bool(FALSE)
                   /\ NothingTouched]_vars

\* a stop_preview of an absent token has returned False, and the reaper has
\* come back from a _remove_preview of an absent token, while another session
\* is registered with its directory and its process
C20_Witness ==
    /\ \E t \in Clients :
          /\ pc[t] = "done" /\ op[t] = "stop_preview" /\ ret[t] = Bool(FALSE)
          /\ via[t] = "none" /\ tok[t] \notin Registered
    /\ pc[Reaper] = "ce_loop" /\ via[Reaper] = "cleanup_expired"
    /\ tok[Reaper] \notin Registered /\ proc[tok[Reaper]] = "stopped"
    /\ \E token \in Registered : dirExists[token] /\ proc[token] = "listening"

\* ======================================================== C21 .. C30
Range(s) == {s[i] : i \in DOMAIN s}

\* the thread is inside a cleanup_expired whose snapshot has been made
Sweeping(t) ==
    \/ op[t] = "cleanup_expired" /\ pc[t] \in {"ce_loop", "rm_get", "rm_stop", "rm_kill", "rm_pop",
                                               "rm_reraise", "done"}
    \/ op[t] = "get_all_previews" /\ pc[t] # "ce_snap"

\* the step makes the locked snapshot of cleanup_expired
Snapshot(t) == pc[t] = "ce_snap" /\ pc'[t] = "ce_loop"

\* C21 (as claimed): the snapshot of cleanup_expired holds the sessions whose
\* expires_at has been reached at the moment the snapshot is made under the
\* lock.
C21_SnapshotAtLockTime ==
    [][\A t \in Threads :
          Snapshot(t) => Range(expired_tokens'[t]) = {token \in Registered : Expired(token)}]_vars

\* C21 (amended): the snapshot holds the registered sessions whose expires_at
\* is at or before the time cleanup_expired read when it began, all of them
\* expired when the snapshot is made; the sweep stops a process, deletes a
\* directory and erases an entry only for tokens of its snapshot; and when
\* it returns no token of the snapshot is in the registry.
C21_SweepTearsDownItsSnapshot ==
    /\ [][\A t \in Threads :
            Snapshot(t) =>
                /\ Range(expired_tokens'[t]) =
                      {token \in Registered :
                          dict_get(previews, token).expires_at <= current_time[t]}
                /\ \A token \in Range(expired_tokens'[t]) : Expired(token)]_vars
    /\ [][\A t \in Threads :
            (Sweeping(t) /\ pc'[t] # pc[t]) =>
                /\ pc'[t] # "idle" => expired_tokens'[t] = expired_tokens[t]
                /\ \A token \in Tokens :
                      (\/ proc'[token] # proc[token]
                       \/ dirExists'[token] # dirExists[token]
                       \/ (token \in Registered /\ token \notin Registered'))
                          => token \in Range(expired_tokens[t])]_vars
    /\ [](\A t \in Threads :
            (Sweeping(t) /\ pc[t] \in {"done", "ga_lock"})
                => \A token \in Range(expired_tokens[t]) : token \notin Registered)

\* a sweep has returned: the session of its snapshot is torn down, a session
\* registered after the snapshot is still there
C21_Witness ==
    /\ Sweeping(Reaper) /\ pc[Reaper] = "done"
    /\ expired_tokens[Reaper] # <<>>
    /\ \A token \in Range(expired_tokens[Reaper]) : Torn(token)
    /\ Registered # {}

\* C22: _remove_preview erases the entry only after the process stop and the
\* directory deletion have both been attempted: a call that has left its try
\* block, on whatever path, the one where stopping the process fails
\* included, has called process.terminate and has carried out the removal
\* of the directory.
C22_StopDeleteErase ==
    \A t \in Threads :
        pc[t] \in {"rm_pop", "rm_reraise"} =>
            /\ <<tok[t], "process.terminate">> \in called
            /\ <<tok[t], "shutil.rmtree">> \in called

\* a create_preview is at work on the token
InCreate(t, token) == op[t] = "create_preview" /\ tok[t] = token /\ pc[t] # "done"

\* C23: a token that is not in the registry, and for which no create_preview
\* and no _remove_preview is in progress, has no directory and no running
\* process.
C23_NoOrphans ==
    \A token \in Tokens :
        (/\ token \notin Registered
         /\ \A t \in Threads : ~InCreate(t, token) /\ ~InRemove(t, token))
            => /\ ~dirExists[token]
               /\ proc[token] \notin {"starting", "listening"}

\* C24: an entry of the registry never changes: as long as a token stays
\* registered, whatever runs (get_preview, cleanup_expired, stop_preview,
\* get_all_previews, serve_preview, the creation of other sessions), its
\* port, created_at and expires_at, the port its process was given and its
\* directory path are what they were; an entry only disappears.
C24_EntriesNeverChange ==
    [][\A token \in Tokens :
          (token \in Registered /\ token \in Registered') =>
              /\ dict_get(previews', token) = dict_get(previews, token)
              /\ procPort'[token] = procPort[token]]_vars

\* get_all_previews has returned the entry of a session that was served and
\* whose time is up, after another session was removed
C24_Witness ==
    /\ \E t \in Clients :
          /\ pc[t] = "done" /\ op[t] = "get_all_previews"
          /\ ret[t].all # {}
    /\ response.status = 200
    /\ \E token \in Tokens : Torn(token)
    /\ \E token \in Registered : Expired(token)

\* what the host holds at or below the directory of a token
TreeOf(token) ==
    <<below(fsFiles, preview_path(token)), below(fsDirs, preview_path(token)),
      {w \in written : is_relative_to(w.path, preview_path(token))}>>

\* C25: a request served for a session that has not expired, whatever the
\* answer (a file, the entry page, a synthesized page, 403, 404), leaves the
\* registry as it is and creates, changes and deletes nothing in the
\* directory of another session.
C25_ServeTouchesOnlyItsSession ==
    [][(ServeNext /\ request.token \in Registered /\ ~Expired(request.token)) =>
          /\ previews' = previews
          /\ \A token \in Tokens \ {request.token} : TreeOf(token)' = TreeOf(token)]_vars

\* the first session was served a synthesized entry page, which was written
\* into its directory, while a second session is registered next to it
C25_Witness ==
    /\ Registered = {1, 2}
    /\ request.token = 1
    /\ response.detail = "generated"
    /\ preview_path(1) \o <<"index.html">> \in fsFiles
    /\ preview_path(2) \o <<"package.json">> \in fsFiles
    /\ preview_path(2) \o <<"index.html">> \notin fsFiles

\* C26: the directory in which start_preview_server started the process of a
\* session (find_static_files) is the directory serve_preview takes as its
\* serving root (find_static_dir), whatever the layout of the session.
C26_SameServingRoot ==
    (Served /\ served_from # NoPath) => procCwd[request.token] = served_from

\* the request was for a sub-path that passed the guard of the serving root
\* and found nothing below it: serve_preview went on to the session root
FallbackReached ==
    /\ ServedFile /\ served_from # NoPath
    /\ within(served_from \o request.segs, served_from)
    /\ ~exists(served_from \o request.segs)

\* C27: when the fallback against the session root is reached with a path
\* that resolves outside the session root, the answer is 403 Access denied,
\* and the path has not been looked up on the filesystem before its guard.
C27_FallbackUnderSameGuard ==
    LET preview_dir == preview_path(request.token) IN
    (FallbackReached /\ ~within(preview_dir \o request.segs, preview_dir)) =>
        /\ response.status = 403
        /\ preview_dir \o request.segs
              \notin fallback_probes(preview_dir, served_from, request.segs)

\* the content type that belongs to the extension of a file name
TypeOfName(name) ==
    CASE name \in {"index.html", "index.htm"} -> "text/html"
      [] name = "a.css" -> "text/css"
      [] name \in {"app.js", "main.js"} -> "application/javascript"
      [] name = "package.json" -> "application/json"
      [] OTHER -> "application/octet-stream"

\* the entry page of a directory: index.html, else index.htm
EntryOf(dir) ==
    IF is_file(dir \o <<"index.html">>) THEN dir \o <<"index.html">>
    ELSE dir \o <<"index.htm">>

\* C28: a request whose path is not that of the entry page and passes the
\* guard of the serving root is answered: with the file it names below the
\* serving root, under the content type of its extension; if it names a
\* directory there, with the entry page of that directory; if it names
\* nothing there but a file below the session root, with that file; and with
\* 404 in every other case.
C28_SubPathResolution ==
    LET preview_dir == preview_path(request.token)
        p == served_from \o request.segs
        q == preview_dir \o request.segs
        last(path) == path[Len(path)]
    IN  (ServedFile /\ served_from # NoPath /\ within(p, served_from)) =>
            IF is_file(p)
              THEN /\ response.status = 200 /\ response.file = resolve(p)
                   /\ media_type = TypeOfName(last(resolve(p)))
            ELSE IF is_dir(p) /\ HasEntry(p)
              THEN /\ response.status = 200 /\ response.file = resolve(EntryOf(p))
                   /\ media_type = "text/html"
            ELSE IF ~exists(p) /\ is_file(q) /\ within(q, preview_dir)
              THEN /\ response.status = 200 /\ response.file = resolve(q)
                   /\ media_type = TypeOfName(last(resolve(q)))
            ELSE response.status = 404

\* a.css, which dist does not hold, has been served from the session root
\* as text/css
C28_Witness ==
    /\ ServedFile
    /\ served_from = preview_path(1) \o <<"dist">>
    /\ request.segs = <<"a.css">>
    /\ response.status = 200
    /\ response.file = preview_path(1) \o <<"a.css">>
    /\ media_type = "text/css"

\* none of the directories serve_preview searches holds an entry page
NoEntryAnywhere(preview_dir) ==
    \A dir \in {preview_dir, preview_dir \o <<"dist">>, preview_dir \o <<"build">>,
                preview_dir \o <<"out">>, preview_dir \o <<"public">>} : ~HasEntry(dir)

\* the session root holds package.json or src
IsWebProject(preview_dir) ==
    exists(preview_dir \o <<"package.json">>) \/ exists(preview_dir \o <<"src">>)

\* C29: a request for the entry page of a session without entry page: with
\* package.json or src in the session root, a page is synthesized, written
\* as index.html into the serving root and served as HTML with its script
\* rewritten, and the next request for the entry page finds that file and is
\* answered with the same content, writing nothing; with neither, the answer
\* is 404 and nothing is written.
C29_FallbackSynthesis ==
    /\ [][(ServeNext /\ EntryRequest /\ request.token \in Registered
              /\ NoEntryAnywhere(preview_path(request.token))) =>
            IF IsWebProject(preview_path(request.token))
              THEN /\ response'.status = 200 /\ media_type' = "text/html"
                   /\ response'.file = served_from' \o <<"index.html">>
                   /\ fsFiles' = fsFiles \cup {served_from' \o <<"index.html">>}
                   /\ content'.tag = "script"
                   /\ startswith(content'.value,
                                 proxy_prefix(request.token) \o <<"src", "/">>)
              ELSE /\ response'.status = 404
                   /\ fsFiles' = fsFiles /\ written' = written]_vars
    /\ [][(ServeNext /\ EntryRequest /\ response.detail = "generated") =>
            /\ response'.status = 200 /\ response'.detail = "index"
            /\ response'.file = response.file
            /\ media_type' = media_type /\ content' = content
            /\ fsFiles' = fsFiles /\ written' = written]_vars

\* the page synthesized into dist has been served a second time, from the
\* file
C29_Witness ==
    /\ Served /\ EntryRequest
    /\ response.detail = "index"
    /\ response.file = preview_path(1) \o <<"dist", "index.html">>
    /\ \E w \in written : w.path = response.file
    /\ content.value = proxy_prefix(1) \o <<"src", "/", "main.js">>

\* the thread makes a step of the scan of find_available_port
Probes(t) == pc[t] = "cp_find" /\ (pc'[t] # pc[t] \/ port'[t] # port[t])

\* C30: find_available_port scans upwards from start_port: it goes past a
\* port only when the probe found it in use, returns the port it is at as
\* soon as the probe finds it free, and raises RuntimeError only when the
\* last port of the window was found in use like all those before it.
C30_LowestFreePort ==
    /\ [][\A t \in Clients :
            (pc[t] # "cp_find" /\ pc'[t] = "cp_find") => port'[t] = StartPort]_vars
    /\ [][\A t \in Clients :
            Probes(t) =>
                IF port[t] \notin Listening
                  THEN pc'[t] = "cp_start" /\ port'[t] = port[t]
                ELSE IF port[t] < StartPort + ScanWindow - 1
                  THEN pc'[t] = "cp_find" /\ port'[t] = port[t] + 1
                ELSE pc'[t] = "cp_except"]_vars

\* the scan went past start_port, which another program holds, and returned
\* the next port
C30_Witness ==
    \E t \in Clients :
        /\ pc[t] = "cp_start" /\ port[t] = StartPort + 1
        /\ StartPort \in extBusy /\ StartPort + 1 \notin Listening

\* ---------------------------------------------------------------------------
\* C31 .. C36
\* ---------------------------------------------------------------------------

\* the process of the session is running
Alive(token) == proc[token] \in {"starting", "listening"}

BuildSucceeded(token) ==
    /\ token < nextToken
    /\ ~extract_raises(zip_data)
    /\ <<"package.json">> \in extracted(zip_data) /\ zip_data.build_script
    /\ <<token, BuildWarning>> \notin printed

\* C32: after a build that succeeded, a session whose dist directory exists
\* and whose root holds an entry page has an entry page in dist, so that
\* find_static_dir selects dist as the serving root and requests are served
\* from there.
C32_EntryPageCopiedToDist ==
    \A token \in Tokens :
        (/\ BuildSucceeded(token)
         /\ is_dir(preview_path(token) \o <<"dist">>)
         /\ HasEntry(preview_path(token)))
            => /\ HasEntry(preview_path(token) \o <<"dist">>)
               /\ find_static_dir(preview_path(token)) = preview_path(token) \o <<"dist">>
               /\ (Served /\ request.token = token /\ served_from # NoPath)
                     => served_from = preview_path(token) \o <<"dist">>

\* the project of the archive declares a build: a manifest with a build step
DeclaresBuild(zip) == <<"package.json">> \in extracted(zip) /\ zip.build_script

\* C33: a session made from a project that declares no build (no manifest,
\* or a manifest without a build step) has had no external command run for
\* it, neither the install nor the build; for a project that declares one
\* the install ran before the build and each ran at most once.
C33_ToolchainOnlyForBuilds ==
    \A token \in Tokens :
        token < nextToken =>
            IF DeclaresBuild(zip_data)
              THEN ran[token] \in {<<>>, <<"npm install">>, <<"npm run build">>,
                                    <<"npm install", "npm run build">>}
              ELSE ran[token] = <<>>

\* C34: of the stop_preview calls made for one token, whatever their
\* interleaving, at most one returns True.
C34_OneStopReturnsTrue ==
    \A t, u \in Clients :
        (/\ pc[t] = "done" /\ op[t] = "stop_preview" /\ ret[t] = Bool(TRUE)
         /\ pc[u] = "done" /\ op[u] = "stop_preview" /\ ret[u] = Bool(TRUE)
         /\ tok[t] = tok[u])
            => t = u

\* C35: the expires_at of the PreviewInfo create_preview returns is the
\* expires_at register_preview stored for the token, the time from which
\* get_preview no longer finds the session.
C35_ReturnedExpiryIsStored ==
    \A t \in Clients :
        (/\ pc[t] = "done" /\ op[t] = "create_preview"
         /\ ret[t].kind = "PreviewInfo"
         /\ tok[t] \in Registered)
            => ret[t].entry.expires_at = dict_get(previews, tok[t]).expires_at

\* C36: the rewrite of references is idempotent for a token: the two re.sub
\* calls applied to a page they have already rewritten leave it as it is,
\* since a reference they rewrote starts with "/preview/".
C36_RewriteIdempotent ==
    (Served /\ response.status = 200 /\ response.rewritten) =>
        /\ content = rewrite_html(request.token, zip_data.html)
        /\ rewrite_html(request.token, content) = content
        /\ content # zip_data.html
              => startswith(content.value, <<"/", "preview", "/">>)

\* a page whose reference was rewritten has been served, and a page whose
\* reference was left alone would be too
C36_Witness ==
    /\ Served /\ response.status = 200 /\ response.rewritten
    /\ content # zip_data.html
    /\ content.value = proxy_prefix(request.token) \o <<"preview", "/", "a.css">>
    /\ rewrite_html(request.token, content) = content

====
